---- MODULE Spec2Model ----
(***************************************************************************)
(* Model of src/rust/psychrolib/src/lib.rs (PsychroLib 2.5.0, Rust crate). *)
(*                                                                         *)
(* The crate consists of the struct Psychrolib {units, tolerance}, its     *)
(* constructor new, the getter GetUnitSystem, the in-place setter          *)
(* set_units and the helper get_t_rankine_from_t_fahrenheit.               *)
(*                                                                         *)
(* Numbers: f64 tolerances are held in thousandths (0.001 = 1), f64        *)
(* temperatures in hundredths of a degree (459.67 = 45967), so that the    *)
(* arithmetic of the source is exact integer arithmetic here.              *)
(***************************************************************************)
EXTENDS Integers, Sequences, FiniteSets

(* ---------------------------- bounds ----------------------------------- *)

\* Number of Psychrolib values a behaviour may construct.
NumCtx == 2

\* Fahrenheit inputs range over -MaxTemp .. MaxTemp whole degrees.
MaxTemp == 2

(* ------------------------ program constants ---------------------------- *)

\* lib.rs:12  const ZERO_FARENHEIT_AS_RANKINE: f64 = 459.67  (hundredths)
ZERO_FARENHEIT_AS_RANKINE == 45967

\* lib.rs:36  const TOLERANCE_IP: f64 = 0.001 * 9.0 * 5.0    (thousandths)
TOLERANCE_IP == 1 * 9 * 5

\* lib.rs:38  const TOLERANCE_SI: f64 = 0.001                (thousandths)
TOLERANCE_SI == 1

\* lib.rs:42-45  pub enum UnitSystem { IP, SI }
UnitSystem == {"IP", "SI"}

\* Fahrenheit temperatures handed to the helper, in hundredths of a degree.
TempInputs == {k * 100 : k \in (0 - MaxTemp) .. MaxTemp}

(* --------------------------- the program ------------------------------- *)

\* Mutant of new: the tolerance of the SI system whatever the selector.
new_tolerance_si(units) ==
    [units |-> units, tolerance |-> TOLERANCE_SI]

\* lib.rs:62-72  Psychrolib::new
new(units) ==
    LET tolerance == IF units = "IP" THEN TOLERANCE_IP ELSE TOLERANCE_SI
    IN  [units |-> units, tolerance |-> tolerance]

\* Mutant of GetUnitSystem: reports the system matching the tolerance.
GetUnitSystem_from_tolerance(self) ==
    IF self.tolerance = TOLERANCE_IP THEN "IP" ELSE "SI"

\* lib.rs:85-87  Psychrolib::GetUnitSystem
GetUnitSystem(self) == self.units

\* Mutant of set_units: rebuilds the tolerance along with the units.
set_units_retune(self, unit_system) ==
    [self EXCEPT !.units = unit_system,
                 !.tolerance = IF unit_system = "IP" THEN TOLERANCE_IP
                                                     ELSE TOLERANCE_SI]

\* lib.rs:102-104  Psychrolib::set_units  (self.units = unit_system)
set_units(self, unit_system) ==
    [self EXCEPT !.units = unit_system]

\* lib.rs:111-114  get_t_rankine_from_t_fahrenheit: the body is the bare
\* expression t_fahrenheit.
get_t_rankine_from_t_fahrenheit(t_fahrenheit) ==
    t_fahrenheit

(* ----------------------------- state ----------------------------------- *)

VARIABLES
    ctx,        \* the Psychrolib values constructed so far, in order
    requested,  \* per value: the unit system last passed to new/set_units
    got,        \* the value returned by the last GetUnitSystem call
    tRankine,   \* the value returned by the last helper call
    lastOp      \* the last call: its name, receiver and arguments

vars == <<ctx, requested, got, tRankine, lastOp>>

NoCall == [op |-> "none", self |-> 0, units |-> "none", t |-> 0]

Init ==
    /\ ctx = <<>>
    /\ requested = <<>>
    /\ got = "none"
    /\ tRankine = 0
    /\ lastOp = NoCall

\* let psych = Psychrolib::new(u);
New(u) ==
    /\ Len(ctx) < NumCtx
    /\ ctx' = Append(ctx, new(u))
    /\ requested' = Append(requested, u)
    /\ lastOp' = [op |-> "new", self |-> Len(ctx) + 1, units |-> u, t |-> 0]
    /\ UNCHANGED <<got, tRankine>>

\* psych.GetUnitSystem()
Get(i) ==
    /\ i \in 1 .. Len(ctx)
    /\ got' = GetUnitSystem(ctx[i])
    /\ lastOp' = [op |-> "GetUnitSystem", self |-> i, units |-> "none", t |-> 0]
    /\ UNCHANGED <<ctx, requested, tRankine>>

\* psych.set_units(u)
SetUnits(i, u) ==
    /\ i \in 1 .. Len(ctx)
    /\ ctx' = [ctx EXCEPT ![i] = set_units(ctx[i], u)]
    /\ requested' = [requested EXCEPT ![i] = u]
    /\ lastOp' = [op |-> "set_units", self |-> i, units |-> u, t |-> 0]
    /\ UNCHANGED <<got, tRankine>>

\* get_t_rankine_from_t_fahrenheit(t)
Rankine(t) ==
    /\ tRankine' = get_t_rankine_from_t_fahrenheit(t)
    /\ lastOp' = [op |-> "get_t_rankine_from_t_fahrenheit", self |-> 0,
                  units |-> "none", t |-> t]
    /\ UNCHANGED <<ctx, requested, got>>

Next ==
    \/ \E u \in UnitSystem : New(u)
    \/ \E i \in 1 .. NumCtx : Get(i)
    \/ \E i \in 1 .. NumCtx, u \in UnitSystem : SetUnits(i, u)
    \/ \E t \in TempInputs : Rankine(t)

Spec == Init /\ [][Next]_vars

(* -------------------------- well-formedness ---------------------------- *)

TypeOK ==
    /\ Len(ctx) <= NumCtx
    /\ \A i \in 1 .. Len(ctx) :
          /\ ctx[i].units \in UnitSystem
          /\ ctx[i].tolerance \in {TOLERANCE_IP, TOLERANCE_SI}
    /\ Len(requested) = Len(ctx)
    /\ got \in UnitSystem \cup {"none"}
    /\ tRankine \in TempInputs \cup {0}

\* The tolerance that belongs to a unit system.
ToleranceOf(u) == IF u = "IP" THEN TOLERANCE_IP ELSE TOLERANCE_SI

(* ------------------------------ claims --------------------------------- *)

\* C1: in every reachable state each context's tolerance is the one of its
\* current unit system: TOLERANCE_IP exactly when units = IP, TOLERANCE_SI
\* exactly when units = SI.  (Stated as claimed; set_units breaks it.)
C1_ToleranceMatchesUnits ==
    \A i \in 1 .. Len(ctx) :
        /\ (ctx[i].tolerance = TOLERANCE_IP) <=> (ctx[i].units = "IP")
        /\ (ctx[i].tolerance = TOLERANCE_SI) <=> (ctx[i].units = "SI")

\* C2: no operation changes the units or the tolerance of a context that
\* already exists; a switch of unit system yields a new context and leaves
\* the original as it was.  (Stated as claimed; set_units assigns the units
\* field of its receiver in place.)
C2_NoMutation ==
    [][\A i \in 1 .. Len(ctx) : ctx'[i] = ctx[i]]_vars

\* C3: new(u) returns a context whose units field is u and whose tolerance
\* is TOLERANCE_IP for u = IP and TOLERANCE_SI for u = SI.
C3_NewBuildsMatchedPair ==
    (lastOp.op = "new") =>
        /\ ctx[lastOp.self].units = lastOp.units
        /\ ctx[lastOp.self].tolerance = ToleranceOf(lastOp.units)

\* C3 witness: new(IP) has just returned (the case of tests::set_units_ip).
C3_Witness ==
    /\ lastOp.op = "new"
    /\ lastOp.units = "IP"
    /\ ctx[lastOp.self].tolerance = TOLERANCE_IP

\* C4: the getter returns the active unit system: the argument of new when
\* no set_units followed, else the argument of the latest set_units.
C4_GetterReportsActive ==
    (lastOp.op = "GetUnitSystem") => (got = requested[lastOp.self])

\* C4 witness: a context built as IP, switched to SI, then read.
C4_Witness ==
    /\ lastOp.op = "GetUnitSystem"
    /\ ctx[lastOp.self].tolerance = TOLERANCE_IP
    /\ requested[lastOp.self] = "SI"
    /\ got = "SI"

\* C9: get_t_rankine_from_t_fahrenheit(t) returns
\* t + ZERO_FARENHEIT_AS_RANKINE.  (Stated as claimed; the code returns t.)
C9_RankineIsOffset ==
    (lastOp.op = "get_t_rankine_from_t_fahrenheit") =>
        (tRankine = lastOp.t + ZERO_FARENHEIT_AS_RANKINE)

\* C10: set_units(u) leaves the tolerance of its receiver as it was, for
\* every prior state and every u.
C10_SetUnitsKeepsTolerance ==
    [][\A i \in 1 .. Len(ctx) :
          (lastOp'.op = "set_units" /\ lastOp'.self = i) =>
              (ctx'[i].tolerance = ctx[i].tolerance)]_vars

\* C10 witness: set_units(SI) has acted on a context built with new(IP):
\* the units are SI, the tolerance is still TOLERANCE_IP.
C10_Witness ==
    /\ lastOp.op = "set_units"
    /\ lastOp.units = "SI"
    /\ ctx[lastOp.self].units = "SI"
    /\ ctx[lastOp.self].tolerance = TOLERANCE_IP

====
